---- MODULE Spec2Model ----
(***************************************************************************)
(* Model of the scissor-detection web application: the WebcamFeed          *)
(* component (src/src/components/WebcamFeed/WebcamFeed.tsx), the           *)
(* usePersonDetection hook (src/unnamed/part_004, lines 1737-2038) and the *)
(* gallery state of App (src/src/App.tsx).                                 *)
(*                                                                         *)
(* One step of the model is one task of the browser's event loop (a timer  *)
(* tick, the settlement of a promise, a DOM event, a click) together with  *)
(* the React commit it causes: the render, the effects of that render and  *)
(* the re-renders those effects schedule, up to the stable state.  The     *)
(* re-renders follow within the same chain of tasks, well below the 500 ms *)
(* and 5000 ms periods of the two timers, and every render re-creates the  *)
(* interval, so no timer callback runs in between.                         *)
(***************************************************************************)
EXTENDS Integers, Sequences, FiniteSets, TLC

NULL == "null"

(* The null value of the error state; an error is <<context, text>>. *)
NO_ERROR == <<>>

(* Bounds of the model. *)
MaxCycles == 3
MaxInFlight == 2
MaxSessions == 2
MaxRenders == 4

(* The two monitored classes, CLASS_NAMES of the hook. *)
CLASS_NAMES == {"person", "scissors"}

(* A detection set is abstracted to the set of class names it contains. *)
DetectionSets == SUBSET CLASS_NAMES

IMAGE == "data:image/png"

VARIABLES
    mounted,            \* the WebcamFeed component is mounted
    mediaSupported,     \* navigator.mediaDevices.getUserMedia exists
    capturedImage,      \* useState, WebcamFeed
    isStreaming,        \* useState, WebcamFeed
    error,              \* useState, WebcamFeed: NO_ERROR or <<context, text>>
    isLoading,          \* useState, WebcamFeed
    hasAutoCapture,     \* useState, WebcamFeed: the one-shot latch
    showScissorsAlert,  \* useState, WebcamFeed: the alert flag
    detectedPersons,    \* useState, hook: the published detection set
    isDetecting,        \* useState, hook
    modelLoaded,        \* useState, hook
    hookError,          \* useState, hook (modelError in WebcamFeed)
    modelRef,           \* useRef, hook: NULL or "model"
    initPc,             \* position of initializeModel
    camPc,              \* position of startWebcam
    detectionInterval,  \* the last run of the polling effect holds a timer id
    intervalTimers,     \* number of setInterval timers created and not cleared
    alertTimer,         \* the 5 s setTimeout of the capture effect is pending
    inFlight,           \* detection cycles awaiting model.predict
    cyclesStarted,      \* number of detectPersons calls that did pipeline work
    capturedImages,     \* useState, App: the gallery
    session,            \* history: number of stream starts
    delivered,          \* history: number of onImageCapture calls
    sessCaptured,       \* history: onImageCapture calls since the stream start
    sessRequested,      \* history: captureImage calls since the stream start
    sessTrigger,        \* history: a render of this session saw scissors while streaming
    lastResult,         \* history: <<persons>> of the last cycle that decoded a result
    lastOutcome,        \* history: how the last ended cycle ended
    publishedCycle,     \* history: the cycle whose result is published, 0 for none
    leakedTensors,      \* history: tensors allocated and never disposed
    input,              \* arguments of the pure function under analysis
    output              \* <<r>> once the function has returned r

appVars == <<mounted, mediaSupported, capturedImage, isStreaming, error, isLoading,
             hasAutoCapture, showScissorsAlert, detectedPersons, isDetecting,
             modelLoaded, hookError, modelRef, initPc, camPc, detectionInterval,
             intervalTimers,
             alertTimer, inFlight, cyclesStarted, capturedImages, session,
             delivered, sessCaptured, sessRequested, sessTrigger, lastResult,
             lastOutcome, publishedCycle, leakedTensors>>

vars == <<appVars, input, output>>

(***************************************************************************)
(* Error values and createErrorHandler                                     *)
(***************************************************************************)
ERROR_MESSAGES ==
    [n \in {"NotAllowedError", "NotFoundError", "NotReadableError",
            "OverconstrainedError", "SecurityError"} |->
        CASE n = "NotAllowedError" -> "Camera permission denied. Please allow camera access."
          [] n = "NotFoundError" -> "No camera found. Please ensure a camera is connected."
          [] n = "NotReadableError" -> "Camera is already in use by another application."
          [] n = "OverconstrainedError" -> "Camera does not support the requested settings."
          [] n = "SecurityError" -> "Camera access blocked by security settings."]

(* A thrown value: whether it is an Error instance, its name, its message. *)
Err(isErr, name, message) == [isError |-> isErr, name |-> name, message |-> message]

NewError(message) == Err(TRUE, "Error", message)

(* Values getUserMedia may reject with. *)
RejectErrs == { Err(TRUE, "NotAllowedError", "Permission denied"),
                NewError("Camera denied"),
                Err(FALSE, "", "") }

HOOK_LOAD_ERROR == "Failed to load YOLOv8 model: load error"
HOOK_DETECT_ERROR == "Detection failed: inference error"

(* The text createErrorHandler passes to setError. *)
ErrorText(err, context) ==
    IF err.isError /\ err.name \in DOMAIN ERROR_MESSAGES
    THEN <<context, ERROR_MESSAGES[err.name]>>
    ELSE IF err.message # ""
         THEN <<context, err.message>>
         ELSE <<context, "An unexpected error occurred">>

(* handleError: setError(...) then setIsStreaming(false). *)
handleError(s, err, context) ==
    [s EXCEPT !.error = ErrorText(err, context), !.isStreaming = FALSE]

(***************************************************************************)
(* The state a commit reads and writes, as a record                        *)
(***************************************************************************)
St ==
    [capturedImage |-> capturedImage, isStreaming |-> isStreaming,
     error |-> error, isLoading |-> isLoading,
     hasAutoCapture |-> hasAutoCapture, showScissorsAlert |-> showScissorsAlert,
     detectedPersons |-> detectedPersons, isDetecting |-> isDetecting,
     modelLoaded |-> modelLoaded, hookError |-> hookError,
     camPc |-> camPc, detectionInterval |-> detectionInterval,
     intervalTimers |-> intervalTimers,
     alertTimer |-> alertTimer, capturedImages |-> capturedImages,
     delivered |-> delivered, sessCaptured |-> sessCaptured,
     sessRequested |-> sessRequested, sessTrigger |-> sessTrigger]

(* The React state of WebcamFeed and of the hook: a render happens when it changes. *)
ReactState(s) ==
    <<s.capturedImage, s.isStreaming, s.error, s.isLoading, s.hasAutoCapture,
      s.showScissorsAlert, s.detectedPersons, s.isDetecting, s.modelLoaded,
      s.hookError>>

(***************************************************************************)
(* Functions of the component                                              *)
(***************************************************************************)
hasScissorsDetected(s) == "scissors" \in s.detectedPersons

(* App.handleImageCapture: append to the gallery. *)
handleImageCapturePrepend(s, img) ==
    [s EXCEPT !.capturedImages = <<img>> \o @,
              !.delivered = @ + 1,
              !.sessCaptured = @ + 1]

handleImageCapture(s, img) ==
    [s EXCEPT !.capturedImages = Append(@, img),
              !.delivered = @ + 1,
              !.sessCaptured = @ + 1]

(* captureImage; cap is what the canvas does: "ok", "noContext", "throws". *)
captureImage(s, cap, refsAvailable) ==
    LET r == [s EXCEPT !.sessRequested = @ + 1] IN
    IF ~refsAvailable
    THEN handleError(r, NewError("Video or canvas not available"), "Capture failed")
    ELSE IF cap = "noContext"
    THEN handleError(r, NewError("Could not get canvas context"), "Capture failed")
    ELSE IF cap = "throws"
    THEN handleError(r, Err(TRUE, "InvalidStateError", "draw failed"), "Failed to capture image")
    ELSE handleImageCapture([r EXCEPT !.capturedImage = IMAGE], IMAGE)

CaptureOutcomes == {"ok", "noContext", "throws"}

(* startWebcam up to its first await; closureIsLoading is the isLoading of the *)
(* render that created the callback. *)
startWebcam(s, closureIsLoading, supported) ==
    IF closureIsLoading THEN s
    ELSE IF ~supported
    THEN [handleError([s EXCEPT !.error = NO_ERROR],
                      NewError("Camera access not supported in this browser"),
                      "Failed to start camera")
            EXCEPT !.isLoading = FALSE]
    ELSE [s EXCEPT !.isLoading = TRUE, !.error = NO_ERROR, !.camPc = "getUserMedia"]

(***************************************************************************)
(* The effects of one render.  Every effect reads the state of the render  *)
(* (snap) and queues its updates (applied in order onto s).  handleError   *)
(* is a new function on every render, so every effect that depends on it,  *)
(* directly or through startWebcam and captureImage, re-runs every render. *)
(***************************************************************************)

(* Effect of lines 61-65: surface the hook's error. *)
ModelErrorEffect(snap, s) ==
    IF snap.hookError # NULL
    THEN handleError(s, NewError(snap.hookError), "AI Model Error")
    ELSE s

(* Condition of line 70; videoRef.current is set while mounted. *)
IntervalCondNoStream(snap) == snap.modelLoaded /\ snap.error = NO_ERROR

IntervalCond(snap) == snap.isStreaming /\ snap.modelLoaded /\ snap.error = NO_ERROR

(* The cleanup of the polling effect, lines 82-86: clearInterval of the    *)
(* timer its run created, if any.                                          *)
IntervalCleanupNoClear(s) == [s EXCEPT !.detectionInterval = FALSE]

IntervalCleanup(s) ==
    IF s.detectionInterval
    THEN [s EXCEPT !.intervalTimers = @ - 1, !.detectionInterval = FALSE]
    ELSE s

(* Effect of lines 67-87: clear the previous interval, create one if polling. *)
IntervalEffect(snap, s) ==
    LET c == IntervalCleanup(s) IN
    IF IntervalCond(snap)
    THEN [c EXCEPT !.intervalTimers = @ + 1, !.detectionInterval = TRUE]
    ELSE c

(* Effect of lines 133-137: start the camera when nothing is going on. *)
AutoStartEffect(snap, s) ==
    IF ~snap.isStreaming /\ ~snap.isLoading /\ snap.error = NO_ERROR
    THEN startWebcam(s, snap.isLoading, mediaSupported)
    ELSE s

(* Condition of line 174. *)
CaptureCondNoLatch(snap) == hasScissorsDetected(snap) /\ snap.isStreaming

CaptureCond(snap) ==
    /\ hasScissorsDetected(snap)
    /\ snap.capturedImage = NULL
    /\ ~snap.hasAutoCapture
    /\ snap.isStreaming

(* Effect of lines 173-185: the cleanup of the previous run clears its     *)
(* timer; then capture once and start the 5 s timer.  The updates of the   *)
(* capturing run change the effect's own dependencies, so the re-render    *)
(* that follows runs the cleanup: the timer is never pending once the      *)
(* commit is stable, and its callback (setShowScissorsAlert(false)) has no *)
(* step of its own.                                                        *)
CaptureEffectRearm(snap, s, cap) ==
    IF CaptureCond(snap)
    THEN [captureImage([s EXCEPT !.hasAutoCapture = TRUE,
                                 !.showScissorsAlert = TRUE], cap, TRUE)
            EXCEPT !.alertTimer = TRUE]
    ELSE [s EXCEPT !.alertTimer = FALSE,
                   !.hasAutoCapture = @ /\ hasScissorsDetected(snap)]

CaptureEffect(snap, s, cap) ==
    IF CaptureCond(snap)
    THEN [captureImage([s EXCEPT !.hasAutoCapture = TRUE,
                                 !.showScissorsAlert = TRUE], cap, TRUE)
            EXCEPT !.alertTimer = TRUE]
    ELSE [s EXCEPT !.alertTimer = FALSE]

(* One render of WebcamFeed followed by its effects, in declaration order. *)
Render(snap, cap) ==
    LET s0 == [snap EXCEPT !.sessTrigger =
                   @ \/ (snap.isStreaming /\ hasScissorsDetected(snap))]
        s1 == ModelErrorEffect(snap, s0)
        s2 == IntervalEffect(snap, s1)
        s3 == AutoStartEffect(snap, s2)
    IN  CaptureEffect(snap, s3, cap)

(* Render until the effects change no state any more. *)
RECURSIVE Commit(_, _, _)
Commit(s, cap, fuel) ==
    LET t == Render(s, cap) IN
    IF fuel = 0 \/ ReactState(t) = ReactState(s)
    THEN t
    ELSE Commit(t, cap, fuel - 1)

(* The next state is the record r. *)
Apply(r) ==
    /\ capturedImage' = r.capturedImage
    /\ isStreaming' = r.isStreaming
    /\ error' = r.error
    /\ isLoading' = r.isLoading
    /\ hasAutoCapture' = r.hasAutoCapture
    /\ showScissorsAlert' = r.showScissorsAlert
    /\ detectedPersons' = r.detectedPersons
    /\ isDetecting' = r.isDetecting
    /\ modelLoaded' = r.modelLoaded
    /\ hookError' = r.hookError
    /\ camPc' = r.camPc
    /\ detectionInterval' = r.detectionInterval
    /\ intervalTimers' = r.intervalTimers
    /\ alertTimer' = r.alertTimer
    /\ capturedImages' = r.capturedImages
    /\ delivered' = r.delivered
    /\ sessCaptured' = r.sessCaptured
    /\ sessRequested' = r.sessRequested
    /\ sessTrigger' = r.sessTrigger

(* The updates of a handler, then the commit; nothing after an unmount. *)
Update(s) ==
    IF mounted
    THEN \E cap \in CaptureOutcomes : Apply(Commit(s, cap, MaxRenders))
    ELSE Apply(St)

(***************************************************************************)
(* Initial state: the first render of App and WebcamFeed and its effects   *)
(* (initializeModel started by the hook, startWebcam by the auto-start     *)
(* effect).                                                                *)
(***************************************************************************)
InitialRecord ==
    [capturedImage |-> NULL, isStreaming |-> FALSE, error |-> NO_ERROR,
     isLoading |-> FALSE, hasAutoCapture |-> FALSE, showScissorsAlert |-> FALSE,
     detectedPersons |-> {}, isDetecting |-> FALSE, modelLoaded |-> FALSE,
     hookError |-> NULL, camPc |-> "idle", detectionInterval |-> FALSE,
     intervalTimers |-> 0,
     alertTimer |-> FALSE, capturedImages |-> <<>>, delivered |-> 0,
     sessCaptured |-> 0, sessRequested |-> 0, sessTrigger |-> FALSE]

AppInit ==
    /\ mounted = TRUE
    /\ mediaSupported \in BOOLEAN
    /\ lastResult = <<>>
    /\ lastOutcome = "none"
    /\ publishedCycle = 0
    /\ leakedTensors = {}
    /\ modelRef = NULL
    /\ initPc = "backend"
    /\ inFlight = {}
    /\ cyclesStarted = 0
    /\ session = 0
    /\ LET r == Commit(InitialRecord, "ok", MaxRenders) IN
        /\ capturedImage = r.capturedImage
        /\ isStreaming = r.isStreaming
        /\ error = r.error
        /\ isLoading = r.isLoading
        /\ hasAutoCapture = r.hasAutoCapture
        /\ showScissorsAlert = r.showScissorsAlert
        /\ detectedPersons = r.detectedPersons
        /\ isDetecting = r.isDetecting
        /\ modelLoaded = r.modelLoaded
        /\ hookError = r.hookError
        /\ camPc = r.camPc
        /\ detectionInterval = r.detectionInterval
        /\ intervalTimers = r.intervalTimers
        /\ alertTimer = r.alertTimer
        /\ capturedImages = r.capturedImages
        /\ delivered = r.delivered
        /\ sessCaptured = r.sessCaptured
        /\ sessRequested = r.sessRequested
        /\ sessTrigger = r.sessTrigger

Init == AppInit /\ input = <<>> /\ output = <<>>

(***************************************************************************)
(* initializeModel (hook, lines 1779-1807)                                 *)
(***************************************************************************)

(* tf.setBackend and tf.ready resolved; setError(null). *)
InitBackendOk ==
    /\ initPc = "backend"
    /\ initPc' = "fetch"
    /\ Update([St EXCEPT !.hookError = NULL])
    /\ UNCHANGED <<mounted, mediaSupported, leakedTensors, publishedCycle,
                   input, output, lastResult, lastOutcome,
                 modelRef, inFlight, cyclesStarted, session>>

(* tf.loadGraphModel resolved: modelRef.current = model; setModelLoaded(true); *)
(* the warm-up predict is awaited. *)
InitFetchOk ==
    /\ initPc = "fetch"
    /\ initPc' = "warmup"
    /\ modelRef' = "model"
    /\ Update([St EXCEPT !.modelLoaded = TRUE])
    /\ UNCHANGED <<mounted, mediaSupported, leakedTensors, publishedCycle,
                   input, output, lastResult, lastOutcome,
                 inFlight, cyclesStarted, session>>

(* The tensors of the pipeline stages. *)
TENSORS == {"dummyInput", "warmupOutput", "inputTensor", "output", "views"}

(* The tensors the warm-up of lines 1797-1800 leaves behind: the result of *)
(* predict is never disposed; dummyInput.dispose() is skipped when predict *)
(* rejects.                                                                *)
warmUpLeft(resolved) == IF resolved THEN {"warmupOutput"} ELSE {"dummyInput"}

(* The tensors a cycle of detectPersons leaves behind, lines 1982-2001:    *)
(* the dispose calls are the last statements of the try block.  how is     *)
(* "ok", "predictRejects" or "decodeThrows" (dataSync in processDetections, *)
(* before its own dispose calls of lines 1929-1930).                       *)
detectPersonsLeft(how) ==
    IF how = "ok" THEN {}
    ELSE IF how = "predictRejects" THEN {"inputTensor"}
    ELSE {"inputTensor", "output", "views"}

(* The warm-up predict resolved. *)
InitWarmupOk ==
    /\ initPc = "warmup"
    /\ initPc' = "done"
    /\ Update(St)
    /\ leakedTensors' = leakedTensors \cup warmUpLeft(TRUE)
    /\ UNCHANGED <<mounted, mediaSupported, publishedCycle,
                   input, output, lastResult, lastOutcome,
                 modelRef, inFlight, cyclesStarted, session>>

(* The catch block of initializeModel, lines 1802-1806. *)
initializeModelCatchKeepsLoaded(s) == [s EXCEPT !.hookError = HOOK_LOAD_ERROR]

initializeModelCatch(s) ==
    [s EXCEPT !.hookError = HOOK_LOAD_ERROR, !.modelLoaded = FALSE]

(* Any of the awaited steps rejected: the catch block. *)
InitFail ==
    /\ initPc \in {"backend", "fetch", "warmup"}
    /\ initPc' = "failed"
    /\ Update(initializeModelCatch(St))
    /\ leakedTensors' = IF initPc = "warmup"
                        THEN leakedTensors \cup warmUpLeft(FALSE)
                        ELSE leakedTensors
    /\ UNCHANGED <<mounted, mediaSupported, publishedCycle,
                   input, output, lastResult, lastOutcome,
                 modelRef, inFlight, cyclesStarted, session>>

(***************************************************************************)
(* startWebcam after its first await, and waitForVideoLoad                 *)
(***************************************************************************)

(* getUserMedia resolved: srcObject is set and the video load is awaited;  *)
(* without a video element the function falls through to finally.         *)
GetUserMediaResolve ==
    /\ camPc = "getUserMedia"
    /\ IF mounted
       THEN Update([St EXCEPT !.camPc = "videoLoad"])
       ELSE Apply([St EXCEPT !.camPc = "idle"])
    /\ UNCHANGED <<mounted, mediaSupported, leakedTensors, publishedCycle,
                   input, output, lastResult, lastOutcome,
                 modelRef, initPc, inFlight, cyclesStarted, session>>

(* getUserMedia rejected: catch, then finally. *)
GetUserMediaReject ==
    /\ camPc = "getUserMedia"
    /\ \E err \in RejectErrs :
        IF mounted
        THEN Update([handleError(St, err, "Failed to start camera")
                       EXCEPT !.isLoading = FALSE, !.camPc = "idle"])
        ELSE Apply([St EXCEPT !.camPc = "idle"])
    /\ UNCHANGED <<mounted, mediaSupported, leakedTensors, publishedCycle,
                   input, output, lastResult, lastOutcome,
                 modelRef, initPc, inFlight, cyclesStarted, session>>

(* onLoadedMetadata: setIsStreaming(true), resolve; then finally. *)
VideoLoaded ==
    /\ camPc = "videoLoad"
    /\ mounted
    /\ session' = session + 1
    /\ Update([St EXCEPT !.isStreaming = TRUE, !.isLoading = FALSE,
                         !.camPc = "idle", !.sessCaptured = 0,
                         !.sessRequested = 0, !.sessTrigger = FALSE])
    /\ UNCHANGED <<mounted, mediaSupported, leakedTensors, publishedCycle,
                   input, output, lastResult, lastOutcome,
                 modelRef, initPc, inFlight, cyclesStarted>>

(* onError of the video element: reject, catch, finally. *)
VideoError ==
    /\ camPc = "videoLoad"
    /\ mounted
    /\ Update([handleError(St, NewError("Failed to load video"), "Failed to start camera")
                  EXCEPT !.isLoading = FALSE, !.camPc = "idle"])
    /\ UNCHANGED <<mounted, mediaSupported, leakedTensors, publishedCycle,
                   input, output, lastResult, lastOutcome,
                 modelRef, initPc, inFlight, cyclesStarted, session>>

(* The Retry camera button, shown while error is set: startWebcam. *)
RetryClick ==
    /\ mounted
    /\ error # NO_ERROR
    /\ ~isLoading
    /\ session < MaxSessions
    /\ Update(startWebcam(St, isLoading, mediaSupported))
    /\ UNCHANGED <<mounted, mediaSupported, leakedTensors, publishedCycle,
                   input, output, lastResult, lastOutcome,
                 modelRef, initPc, inFlight, cyclesStarted, session>>

(***************************************************************************)
(* The detection loop                                                      *)
(***************************************************************************)

(* setDetectedPersons(persons), line 1993: the new list replaces the old. *)
setDetectedPersonsMerge(prev, persons) == prev \cup persons

setDetectedPersons(prev, persons) == persons

(* The catch and finally blocks of detectPersons, lines 2003-2008, entered *)
(* when preprocessImage, predict or processDetections throws.              *)
detectPersonsCatchKeepsFlag(s) == [s EXCEPT !.hookError = HOOK_DETECT_ERROR]

detectPersonsCatch(s) ==
    [s EXCEPT !.hookError = HOOK_DETECT_ERROR, !.isDetecting = FALSE]

(* The guard of detectPersons, line 1975. *)
ModelUsable(ref, loaded) == ref # NULL /\ loaded

(* A tick of the interval: the callback of lines 71-79 calls detectPersons, *)
(* which runs up to the await of predict.  pre is what preprocessImage     *)
(* does.                                                                   *)
Tick ==
    /\ mounted
    /\ intervalTimers > 0
    /\ error = NO_ERROR
    /\ ModelUsable(modelRef, modelLoaded)
    /\ cyclesStarted < MaxCycles
    /\ Cardinality(inFlight) < MaxInFlight
    /\ cyclesStarted' = cyclesStarted + 1
    /\ \E pre \in {"ok", "throws"} :
        IF pre = "ok"
        THEN /\ inFlight' = inFlight \cup {cyclesStarted + 1}
             /\ Update([St EXCEPT !.isDetecting = TRUE, !.hookError = NULL])
             /\ UNCHANGED lastOutcome
        ELSE /\ inFlight' = inFlight
             /\ Update(detectPersonsCatch(St))
             /\ lastOutcome' = "failed"
    /\ UNCHANGED <<mounted, mediaSupported, leakedTensors, publishedCycle,
                   input, output, lastResult,
                 modelRef, initPc, session>>

(* predict of cycle c settled.  Resolved and decoded to the set persons:   *)
(* setDetectedPersons, finally.  Rejected, or processDetections threw:     *)
(* setError, finally.                                                      *)
CycleComplete ==
    \E c \in inFlight :
        /\ inFlight' = inFlight \ {c}
        /\ \/ \E persons \in DetectionSets :
                /\ Update([St EXCEPT
                              !.detectedPersons = setDetectedPersons(@, persons),
                              !.isDetecting = FALSE])
                /\ lastResult' = <<persons>>
                /\ lastOutcome' = "ok"
                /\ publishedCycle' = (IF mounted THEN c ELSE publishedCycle)
                /\ leakedTensors' = leakedTensors \cup detectPersonsLeft("ok")
           \/ /\ Update(detectPersonsCatch(St))
              /\ lastOutcome' = "failed"
              /\ \E how \in {"predictRejects", "decodeThrows"} :
                    leakedTensors' = leakedTensors \cup detectPersonsLeft(how)
              /\ UNCHANGED <<lastResult, publishedCycle>>
        /\ UNCHANGED <<mounted, mediaSupported,
                       input, output,
                       modelRef, initPc, cyclesStarted, session>>

(***************************************************************************)
(* App                                                                     *)
(***************************************************************************)

(* clearGallery; the button is rendered while the gallery is shown. *)
clearGallery ==
    /\ Len(capturedImages) > 0
    /\ Update([St EXCEPT !.capturedImages = <<>>])
    /\ UNCHANGED <<mounted, mediaSupported, leakedTensors, publishedCycle,
                   input, output, lastResult, lastOutcome,
                 modelRef, initPc, inFlight, cyclesStarted, session>>

(* Unmount: the cleanups of the effects (clearInterval, clearTimeout) and  *)
(* the hook's cleanup (dispose the model); state updates are dropped.      *)
Unmount ==
    /\ mounted
    /\ mounted' = FALSE
    /\ modelRef' = NULL
    /\ Apply([IntervalCleanup(St) EXCEPT !.alertTimer = FALSE])
    /\ UNCHANGED <<mediaSupported, leakedTensors, publishedCycle,
                   input, output, lastResult, lastOutcome,
                 initPc, inFlight, cyclesStarted, session>>

Next ==
    \/ InitBackendOk
    \/ InitFetchOk
    \/ InitWarmupOk
    \/ InitFail
    \/ GetUserMediaResolve
    \/ GetUserMediaReject
    \/ VideoLoaded
    \/ VideoError
    \/ RetryClick
    \/ Tick
    \/ CycleComplete
    \/ clearGallery
    \/ Unmount

Spec == Init /\ [][Next]_vars

TypeOK ==
    /\ mounted \in BOOLEAN
    /\ capturedImage \in {NULL, IMAGE}
    /\ isStreaming \in BOOLEAN
    /\ isLoading \in BOOLEAN
    /\ hasAutoCapture \in BOOLEAN
    /\ showScissorsAlert \in BOOLEAN
    /\ detectedPersons \in DetectionSets
    /\ hookError \in {NULL, HOOK_LOAD_ERROR, HOOK_DETECT_ERROR}
    /\ camPc \in {"idle", "getUserMedia", "videoLoad"}
    /\ initPc \in {"backend", "fetch", "warmup", "done", "failed"}
    /\ inFlight \subseteq 1..MaxCycles
    /\ lastResult \in {<<>>} \cup {<<d>> : d \in DetectionSets}
    /\ lastOutcome \in {"none", "ok", "failed"}
    /\ publishedCycle \in 0..MaxCycles
    /\ intervalTimers \in 0..1
    /\ leakedTensors \subseteq TENSORS
    /\ session \in 0..MaxSessions

(***************************************************************************)
(* Properties                                                              *)
(***************************************************************************)

(* The loop is polling: stream active, no error, interval running. *)
Polling == isStreaming /\ error = NO_ERROR /\ detectionInterval

(* C1: between a stream start and the next stream stop or restart the      *)
(* auto-capture effect calls captureImage, and so onImageCapture, at most  *)
(* once.                                                                   *)
C1_AtMostOneCapture == sessRequested <= 1 /\ sessCaptured <= 1

(* The capture was taken and the trigger is still in view after a further cycle. *)
C1_Witness ==
    /\ sessCaptured = 1
    /\ isStreaming
    /\ "scissors" \in detectedPersons
    /\ cyclesStarted >= 2
    /\ inFlight = {}

(* C2: while a detection cycle is in flight, a tick starts no pipeline     *)
(* work: no step starts a cycle while another one has not completed.       *)
C2_NoOverlap == [][inFlight # {} => cyclesStarted' = cyclesStarted]_vars

(* C3: a session in which the trigger was seen while streaming has exactly *)
(* one capture event, also when an earlier session already had its         *)
(* capture: after a stream stop and restart the next trigger detection     *)
(* emits a second capture event.                                           *)
C3_LatchPerSession ==
    /\ sessCaptured <= 1
    /\ (sessTrigger /\ delivered >= 1) => sessCaptured = 1

(* C4: once the stream is stopped the interval is cancelled and no result  *)
(* of a cycle is written to detectedPersons while the stream is stopped.   *)
C4_Cancellation ==
    [][/\ ~isStreaming' => ~detectionInterval'
       /\ ~isStreaming => detectedPersons' = detectedPersons]_vars

(* C5: the step in which a detection cycle fails leaves the loop suspended *)
(* on the error (error recorded, stream and interval stopped) and the      *)
(* published detection set empty.                                          *)
C5_FailureClears ==
    [][(hookError' = HOOK_DETECT_ERROR /\ hookError # HOOK_DETECT_ERROR) =>
          /\ error' # NO_ERROR
          /\ ~isStreaming'
          /\ ~detectionInterval'
          /\ detectedPersons' = {}]_vars

(* C6: the interval exists only while the stream is active, the model is   *)
(* loaded and no error is set, and a detection cycle is started only in    *)
(* such a state.                                                           *)
C6_PollingOnly ==
    /\ [](detectionInterval => (isStreaming /\ modelLoaded /\ error = NO_ERROR))
    /\ [][cyclesStarted' # cyclesStarted =>
            (isStreaming /\ modelLoaded /\ error = NO_ERROR)]_vars

(* The loop was stopped by an error, was restarted, and polls again. *)
C6_Witness == session = 2 /\ Polling /\ cyclesStarted >= 2 /\ inFlight # {}

(* C7: a stream restart after an inference error brings the loop back to   *)
(* Polling.                                                                *)
C7_RetryResumes ==
    [][(session' = session + 1 /\ hookError = HOOK_DETECT_ERROR) => Polling']_vars

(* C8: while the alert flag is raised, the timer that clears it is pending. *)
C8_AlertSelfClears == showScissorsAlert => alertTimer

(* C9: in a session whose published detection set contained scissors while *)
(* the stream was active, a frame capture was requested, the latch is set  *)
(* and the alert flag was raised.                                          *)
C9_CaptureOnTrigger ==
    sessTrigger => (sessRequested >= 1 /\ hasAutoCapture /\ showScissorsAlert)

(* C10: once set, the latch stays set in every step that is not a stream   *)
(* restart, and no further capture event is emitted while it is set.       *)
C10_LatchSticky ==
    [][(hasAutoCapture /\ session' = session) =>
          (hasAutoCapture' /\ delivered' = delivered)]_vars

(* The latch is set, one capture was emitted, and a later cycle published  *)
(* a detection set without the trigger class.                              *)
C10_Witness ==
    /\ hasAutoCapture
    /\ delivered = 1
    /\ "scissors" \notin detectedPersons
    /\ cyclesStarted >= 2
    /\ inFlight = {}

(* The error channel holds a failure reported by captureImage. *)
IsCaptureError(e) ==
    e # NO_ERROR /\ e[1] \in {"Capture failed", "Failed to capture image"}

(* C11: the step in which a capture failure is reported leaves the         *)
(* detection loop as it was: the stream stays active and the interval      *)
(* keeps ticking.                                                          *)
C11_CaptureErrorKeepsLoop ==
    [][(IsCaptureError(error') /\ ~IsCaptureError(error)) =>
          (isStreaming' /\ detectionInterval')]_vars

(* C12: when model loading fails, the failure is on the error channel as  *)
(* an AI Model Error, modelLoaded is false and the interval is off; from   *)
(* then on no detection cycle starts and no further load is attempted.     *)
C12_LoadFailure ==
    /\ [][(mounted /\ initPc' = "failed" /\ initPc # "failed") =>
            /\ hookError' = HOOK_LOAD_ERROR
            /\ error' = <<"AI Model Error", HOOK_LOAD_ERROR>>
            /\ ~modelLoaded'
            /\ ~detectionInterval']_vars
    /\ [][initPc = "failed" =>
            /\ initPc' = "failed"
            /\ (mounted => ~modelLoaded')
            /\ cyclesStarted' = cyclesStarted]_vars

(* The warm-up failed after the stream had started and cycles had run, and *)
(* a retry of the camera is under way.                                     *)
C12_Witness ==
    /\ mounted
    /\ initPc = "failed"
    /\ modelRef = "model"
    /\ cyclesStarted >= 1
    /\ camPc = "getUserMedia"
    /\ error = <<"AI Model Error", HOOK_LOAD_ERROR>>

(* C13: a retry from the error state after a failed model load attempts    *)
(* the model load again.                                                   *)
C13_RetryReloadsModel ==
    [][(mounted /\ error # NO_ERROR /\ camPc = "idle" /\ camPc' = "getUserMedia"
          /\ initPc = "failed") => initPc' # "failed"]_vars


(* C14: every successfully loaded model handle is disposed: once the       *)
(* component is unmounted (cleanup has run and never runs again) no model  *)
(* handle is still held undisposed.                                        *)
C14_ModelDisposed == ~mounted => modelRef = NULL

(* C15: while mounted, the published detection set is empty or is exactly  *)
(* the set decoded by one cycle, the last one that published: a cycle      *)
(* replaces the previous set wholesale and sets are never merged.          *)
C15_SingleCycle ==
    mounted => (detectedPersons = {} \/ lastResult = <<detectedPersons>>)

(* A set with scissors was published earlier in this session and has been  *)
(* replaced by a later cycle's set without scissors.                       *)
C15_Witness ==
    /\ mounted /\ sessTrigger /\ cyclesStarted >= 2
    /\ detectedPersons = {"person"} /\ lastResult = <<{"person"}>>

(* The states of the detection loop, spec section 4.4. *)
Idle == ~isStreaming /\ error = NO_ERROR /\ ~detectionInterval

Suspended == error # NO_ERROR /\ ~detectionInterval

(* This step ends a cycle: predict settled, or the cycle threw before its  *)
(* await.                                                                  *)
CycleEnded ==
    \/ inFlight' # inFlight /\ inFlight' \subseteq inFlight
    \/ cyclesStarted' > cyclesStarted /\ inFlight' = inFlight

(* C16: after any cycle, successful or failed, isDetecting is false and    *)
(* the loop is Idle, Polling or Suspended-on-error; a failed cycle is      *)
(* recorded as "Detection failed: ..." on the error channel.               *)
C16_CycleContained ==
    [][(mounted /\ CycleEnded) =>
          /\ ~isDetecting'
          /\ (Idle' \/ Polling' \/ Suspended')
          /\ (lastOutcome' = "failed" =>
                 /\ hookError' = HOOK_DETECT_ERROR
                 /\ error' = <<"AI Model Error", HOOK_DETECT_ERROR>>
                 /\ Suspended')]_vars

(* A cycle failed while another one was still awaiting predict. *)
C16_Witness ==
    /\ mounted /\ lastOutcome = "failed" /\ inFlight # {}
    /\ ~isDetecting /\ Suspended /\ hookError = HOOK_DETECT_ERROR

(***************************************************************************)
(* The pure functions of the hook: calculateIoU, nonMaxSuppression and     *)
(* processDetections.  Scores and thresholds are counted in tenths (0.5 is *)
(* 5); a quotient n / d is the pair <<n, d>>, the literal 0 is <<0, 1>>.   *)
(***************************************************************************)

PERSON_CLASS_INDEX == 0
SCISSORS_CLASS_INDEX == 76

(* DETECTION_CLASSES, line 1760. *)
DETECTION_CLASSES_WithBicycle == <<PERSON_CLASS_INDEX, 1, SCISSORS_CLASS_INDEX>>

DETECTION_CLASSES == <<PERSON_CLASS_INDEX, SCISSORS_CLASS_INDEX>>

(* CLASS_NAMES[classIndex], lines 1754-1757. *)
ClassName(classIndex) ==
    IF classIndex = PERSON_CLASS_INDEX THEN "person"
    ELSE IF classIndex = SCISSORS_CLASS_INDEX THEN "scissors"
    ELSE "undefined"

(* YOLO_CONFIG, lines 1763-1768. *)
inputSize == 640
iouThreshold == 4
confidenceThresholdSwapped == iouThreshold

confidenceThreshold == 5

(* Length of one row of the transposed output, line 1899. *)
ROW_STRIDE == 84

Max(a, b) == IF a >= b THEN a ELSE b
Min(a, b) == IF a <= b THEN a ELSE b

(* calculateIoU, lines 1829-1848; boxes are <<x1, y1, x2, y2>>. *)
calculateIoUSumUnion(box1, box2) ==
    LET intersectionX1 == Max(box1[1], box2[1])
        intersectionY1 == Max(box1[2], box2[2])
        intersectionX2 == Min(box1[3], box2[3])
        intersectionY2 == Min(box1[4], box2[4])
    IN  IF intersectionX2 <= intersectionX1 \/ intersectionY2 <= intersectionY1
        THEN <<0, 1>>
        ELSE LET intersectionArea == (intersectionX2 - intersectionX1)
                                       * (intersectionY2 - intersectionY1)
                 box1Area == (box1[3] - box1[1]) * (box1[4] - box1[2])
                 box2Area == (box2[3] - box2[1]) * (box2[4] - box2[2])
             IN  <<intersectionArea, box1Area + box2Area>>

calculateIoUStrictGuard(box1, box2) ==
    LET intersectionX1 == Max(box1[1], box2[1])
        intersectionY1 == Max(box1[2], box2[2])
        intersectionX2 == Min(box1[3], box2[3])
        intersectionY2 == Min(box1[4], box2[4])
    IN  IF intersectionX2 < intersectionX1 \/ intersectionY2 < intersectionY1
        THEN <<0, 1>>
        ELSE LET intersectionArea == (intersectionX2 - intersectionX1)
                                       * (intersectionY2 - intersectionY1)
                 box1Area == (box1[3] - box1[1]) * (box1[4] - box1[2])
                 box2Area == (box2[3] - box2[1]) * (box2[4] - box2[2])
                 unionArea == box1Area + box2Area - intersectionArea
             IN  <<intersectionArea, unionArea>>

calculateIoU(box1, box2) ==
    LET intersectionX1 == Max(box1[1], box2[1])
        intersectionY1 == Max(box1[2], box2[2])
        intersectionX2 == Min(box1[3], box2[3])
        intersectionY2 == Min(box1[4], box2[4])
    IN  IF intersectionX2 <= intersectionX1 \/ intersectionY2 <= intersectionY1
        THEN <<0, 1>>
        ELSE LET intersectionArea == (intersectionX2 - intersectionX1)
                                       * (intersectionY2 - intersectionY1)
                 box1Area == (box1[3] - box1[1]) * (box1[4] - box1[2])
                 box2Area == (box2[3] - box2[1]) * (box2[4] - box2[2])
                 unionArea == box1Area + box2Area - intersectionArea
             IN  <<intersectionArea, unionArea>>

(* iou > iouThreshold, line 1874, for a quotient with a positive divisor. *)
ExceedsFlipped(iou, threshold) == 10 * iou[1] < threshold * iou[2]

Exceeds(iou, threshold) == 10 * iou[1] > threshold * iou[2]

(* Array.prototype.sort with (a, b) => b.score - a.score, line 1860: a     *)
(* stable sort by descending score.  InsertDesc puts d behind every entry  *)
(* that scores at least as much.                                           *)
RECURSIVE InsertAsc(_, _)
InsertAsc(d, sorted) ==
    IF sorted = <<>> THEN <<d>>
    ELSE IF Head(sorted).score <= d.score
         THEN <<Head(sorted)>> \o InsertAsc(d, Tail(sorted))
         ELSE <<d>> \o sorted

RECURSIVE InsertDescStrict(_, _)
InsertDescStrict(d, sorted) ==
    IF sorted = <<>> THEN <<d>>
    ELSE IF Head(sorted).score > d.score
         THEN <<Head(sorted)>> \o InsertDescStrict(d, Tail(sorted))
         ELSE <<d>> \o sorted

RECURSIVE InsertDesc(_, _)
InsertDesc(d, sorted) ==
    IF sorted = <<>> THEN <<d>>
    ELSE IF Head(sorted).score >= d.score
         THEN <<Head(sorted)>> \o InsertDesc(d, Tail(sorted))
         ELSE <<d>> \o sorted

RECURSIVE SortDesc(_, _)
SortDesc(dets, sorted) ==
    IF dets = <<>> THEN sorted
    ELSE SortDesc(Tail(dets), InsertDesc(Head(dets), sorted))

(* validDetections, lines 1857-1860: map, filter, sort; indices from 0. *)
ValidDetections(boxes, scores, confThreshold) ==
    LET mapped == [k \in 1..Len(boxes) |->
                     [box |-> boxes[k], score |-> scores[k], index |-> k - 1]]
        filtered == SelectSeq(mapped, LAMBDA d : d.score >= confThreshold)
    IN  SortDesc(filtered, <<>>)

(* The loop of lines 1865-1878 from position k of validDetections. *)
RECURSIVE SuppressFromNoSkip(_, _, _, _, _)
SuppressFromNoSkip(valid, k, selectedIndices, suppressedIndices, iouThr) ==
    IF k > Len(valid) THEN selectedIndices
    ELSE SuppressFromNoSkip(valid, k + 1, Append(selectedIndices, valid[k].index),
                            suppressedIndices, iouThr)

RECURSIVE SuppressFrom(_, _, _, _, _)
SuppressFrom(valid, k, selectedIndices, suppressedIndices, iouThr) ==
    IF k > Len(valid) THEN selectedIndices
    ELSE LET detection == valid[k] IN
         IF detection.index \in suppressedIndices
         THEN SuppressFrom(valid, k + 1, selectedIndices, suppressedIndices, iouThr)
         ELSE LET added == { valid[j].index : j \in
                              { j \in 1..Len(valid) :
                                  /\ valid[j].index # detection.index
                                  /\ valid[j].index \notin suppressedIndices
                                  /\ Exceeds(calculateIoU(detection.box, valid[j].box),
                                             iouThr) } }
              IN  SuppressFrom(valid, k + 1, Append(selectedIndices, detection.index),
                               suppressedIndices \cup added, iouThr)

(* nonMaxSuppression, lines 1851-1881. *)
nonMaxSuppression(boxes, scores, confThreshold, iouThr) ==
    SuppressFrom(ValidDetections(boxes, scores, confThreshold), 1, <<>>, {}, iouThr)

(* The raw output after squeeze, transpose and dataSync, lines 1890-1893:  *)
(* a flat array of rows of ROW_STRIDE numbers, the box in columns 0..3 and *)
(* the score of class c in column 4 + c.  raw.rows holds, per row, the box *)
(* and the scores of the classes 0 and 76; every other class of every row  *)
(* scores raw.other.                                                       *)
data(raw, k) ==
    LET row == raw.rows[(k \div ROW_STRIDE) + 1]
        col == k % ROW_STRIDE
    IN  IF col < 4 THEN row.box[col + 1]
        ELSE IF col = 4 + PERSON_CLASS_INDEX THEN row.person
        ELSE IF col = 4 + SCISSORS_CLASS_INDEX THEN row.scissors
        ELSE raw.other

(* videoWidth / inputSize in quarters; exact for the frame sizes of Frames. *)
Scale4(dim) == (4 * dim) \div inputSize

(* Lines 1899-1923 for row i and one class: the candidate pushed when the  *)
(* class scores at least the threshold.  Corners are in eighths of a       *)
(* pixel: (centerX - width / 2) * (videoWidth / inputSize) is              *)
(* (2 * centerX - width) * Scale4(videoWidth) / 8.                         *)
CandidateScaleByWidth(raw, i, classIndex, videoWidth, videoHeight) ==
    LET offset == i * ROW_STRIDE
        classConfidence == data(raw, offset + 4 + classIndex)
        centerX == data(raw, offset + 0)
        centerY == data(raw, offset + 1)
        width == data(raw, offset + 2)
        height == data(raw, offset + 3)
        x1 == (2 * centerX - width) * Scale4(videoWidth)
        y1 == (2 * centerY - height) * Scale4(videoWidth)
        x2 == (2 * centerX + width) * Scale4(videoWidth)
        y2 == (2 * centerY + height) * Scale4(videoWidth)
    IN  [box |-> <<x1, y1, x2, y2>>, score |-> classConfidence,
         classIndex |-> classIndex, className |-> ClassName(classIndex)]

Candidate(raw, i, classIndex, videoWidth, videoHeight) ==
    LET offset == i * ROW_STRIDE
        classConfidence == data(raw, offset + 4 + classIndex)
        centerX == data(raw, offset + 0)
        centerY == data(raw, offset + 1)
        width == data(raw, offset + 2)
        height == data(raw, offset + 3)
        x1 == (2 * centerX - width) * Scale4(videoWidth)
        y1 == (2 * centerY - height) * Scale4(videoHeight)
        x2 == (2 * centerX + width) * Scale4(videoWidth)
        y2 == (2 * centerY + height) * Scale4(videoHeight)
    IN  [box |-> <<x1, y1, x2, y2>>, score |-> classConfidence,
         classIndex |-> classIndex, className |-> ClassName(classIndex)]

(* The loop of lines 1898-1926: rows in order, per row the classes in      *)
(* order, keeping the candidates at or above the threshold.                *)
DetectionsFirstClassOnly(raw, videoWidth, videoHeight) ==
    LET nc == Len(DETECTION_CLASSES)
        all == [j \in 1..(Len(raw.rows) * nc) |->
                  Candidate(raw, (j - 1) \div nc,
                            DETECTION_CLASSES[((j - 1) % nc) + 1],
                            videoWidth, videoHeight)]
        firsts == SelectSeq([j \in 1..Len(all) |-> j],
                            LAMBDA j : /\ all[j].score >= confidenceThreshold
                                       /\ \A m \in 1..(j - 1) :
                                            (m - 1) \div nc = (j - 1) \div nc
                                              => all[m].score < confidenceThreshold)
    IN  [q \in 1..Len(firsts) |-> all[firsts[q]]]

Detections(raw, videoWidth, videoHeight) ==
    LET nc == Len(DETECTION_CLASSES)
        all == [j \in 1..(Len(raw.rows) * nc) |->
                  Candidate(raw, (j - 1) \div nc,
                            DETECTION_CLASSES[((j - 1) % nc) + 1],
                            videoWidth, videoHeight)]
    IN  SelectSeq(all, LAMBDA d : d.score >= confidenceThreshold)

(* The keys of detectionsByClass in insertion order, lines 1933-1939. *)
ClassKeys(detections) ==
    LET firsts == SelectSeq([k \in 1..Len(detections) |-> k],
                            LAMBDA k : \A m \in 1..(k - 1) :
                                detections[m].classIndex # detections[k].classIndex)
    IN  [q \in 1..Len(firsts) |-> detections[firsts[q]].classIndex]

(* Lines 1944-1965 for one class group. *)
ClassResultsCorners(classDetections) ==
    LET boxes == [k \in 1..Len(classDetections) |-> classDetections[k].box]
        scores == [k \in 1..Len(classDetections) |-> classDetections[k].score]
        selectedIndices == nonMaxSuppression(boxes, scores, confidenceThreshold,
                                             iouThreshold)
    IN  [q \in 1..Len(selectedIndices) |->
           LET detection == classDetections[selectedIndices[q] + 1]
           IN  [bbox |-> detection.box,
                confidence |-> detection.score,
                className |-> detection.className,
                classIndex |-> detection.classIndex]]

ClassResults(classDetections) ==
    LET boxes == [k \in 1..Len(classDetections) |-> classDetections[k].box]
        scores == [k \in 1..Len(classDetections) |-> classDetections[k].score]
        selectedIndices == nonMaxSuppression(boxes, scores, confidenceThreshold,
                                             iouThreshold)
    IN  [q \in 1..Len(selectedIndices) |->
           LET detection == classDetections[selectedIndices[q] + 1]
               b == detection.box
           IN  [bbox |-> <<b[1], b[2], b[3] - b[1], b[4] - b[2]>>,
                confidence |-> detection.score,
                className |-> detection.className,
                classIndex |-> detection.classIndex]]

(* finalDetections.push(...classResults) over the groups, lines 1942-1968. *)
FinalDetectionsNoGroups(detections, keys, q) == ClassResults(detections)

RECURSIVE FinalDetections(_, _, _)
FinalDetections(detections, keys, q) ==
    IF q > Len(keys) THEN <<>>
    ELSE ClassResults(SelectSeq(detections, LAMBDA d : d.classIndex = keys[q]))
           \o FinalDetections(detections, keys, q + 1)

(* processDetections, lines 1884-1971. *)
processDetections(raw, videoWidth, videoHeight) ==
    LET detections == Detections(raw, videoWidth, videoHeight)
    IN  FinalDetections(detections, ClassKeys(detections), 1)

(***************************************************************************)
(* Specifications that apply one pure function to inputs from bounded      *)
(* sets; the application state stays in its initial state.                 *)
(***************************************************************************)

MaxCoord == 2
MaxBoxes == 3
MaxRows == 2

(* Scores in tenths: below the threshold, at it, above it. *)
Scores == {4, 5, 9}

(* All boxes with corners in 0..MaxCoord, zero-area and inverted included. *)
Boxes == (0..MaxCoord) \X (0..MaxCoord) \X (0..MaxCoord) \X (0..MaxCoord)

(* Candidate boxes for suppression: pairs of them are identical, disjoint, *)
(* touching, overlapping with IoU 1/3 and 1/2; two have no area.           *)
CandidateBoxes ==
    { <<0, 0, 2, 1>>, <<1, 0, 2, 2>>, <<0, 0, 1, 1>>, <<1, 1, 2, 2>>,
      <<1, 1, 1, 1>>, <<0, 0, 0, 2>> }

(* Sequences of at most n elements of S. *)
SeqUpTo(S, n) == UNION { [1..m -> S] : m \in 0..n }

(* Rows of a raw output in model space, <<centerX, centerY, width, height>>. *)
RowBoxes == { <<320, 240, 100, 100>>, <<330, 240, 100, 100>>, <<500, 400, 100, 100>> }

Rows == [box : RowBoxes, person : Scores, scissors : Scores]

(* <<videoWidth, videoHeight>> of the source frame. *)
Frames == { <<640, 480>>, <<320, 320>> }

PureInit == AppInit /\ mediaSupported = TRUE /\ output = <<>>

InitIoU == PureInit /\ input \in Boxes \X Boxes

CallCalculateIoU ==
    /\ output = <<>>
    /\ output' = <<calculateIoU(input[1], input[2])>>
    /\ UNCHANGED <<appVars, input>>

NextIoU == CallCalculateIoU

SpecIoU == InitIoU /\ [][NextIoU]_vars

(* input[k] is <<box, score>> of candidate k - 1. *)
InitNMS == PureInit /\ input \in SeqUpTo(CandidateBoxes \X Scores, MaxBoxes)

InputBoxes == [k \in 1..Len(input) |-> input[k][1]]

InputScores == [k \in 1..Len(input) |-> input[k][2]]

CallNonMaxSuppression ==
    /\ output = <<>>
    /\ output' = <<nonMaxSuppression(InputBoxes, InputScores, confidenceThreshold,
                                     iouThreshold)>>
    /\ UNCHANGED <<appVars, input>>

NextNMS == CallNonMaxSuppression

SpecNMS == InitNMS /\ [][NextNMS]_vars

InitDecode ==
    /\ PureInit
    /\ input \in [rows : SeqUpTo(Rows, MaxRows) \ {<<>>}, other : {0, 9},
                  frame : Frames]

CallProcessDetections ==
    /\ output = <<>>
    /\ output' = <<processDetections(input, input.frame[1], input.frame[2])>>
    /\ UNCHANGED <<appVars, input>>

NextDecode == CallProcessDetections

SpecDecode == InitDecode /\ [][NextDecode]_vars

(* Every score of the raw output is below 0.5. *)
AllScoresBelow(raw) ==
    /\ raw.other < 5
    /\ \A k \in 1..Len(raw.rows) : raw.rows[k].person < 5 /\ raw.rows[k].scissors < 5

(* The class names of a list of detections: what the component reads. *)
ClassesOf(detections) == { detections[k].className : k \in 1..Len(detections) }

(* C17: for every raw output whose scores are all below 0.5,               *)
(* processDetections returns no detection, so the set the cycle publishes  *)
(* is empty.                                                               *)
C17_BelowThresholdEmpty ==
    (output # <<>> /\ AllScoresBelow(input)) =>
        /\ output[1] = <<>>
        /\ \A prev \in DetectionSets :
              setDetectedPersons(prev, ClassesOf(output[1])) = {}

(* Two rows, every score below 0.5, decoded to the empty list. *)
C17_Witness ==
    /\ output = << <<>> >>
    /\ Len(input.rows) = 2
    /\ AllScoresBelow(input)

(* The box has a positive width and a positive height. *)
PositiveArea(box) == box[1] < box[3] /\ box[2] < box[4]

(* The input is a pair of identical boxes with scores s1 > s2, both at or *)
(* above the confidence threshold; BestOfPair is the index of s1.          *)
IdenticalPair ==
    /\ Len(input) = 2
    /\ input[1][1] = input[2][1]
    /\ input[1][2] # input[2][2]
    /\ input[1][2] >= 5 /\ input[2][2] >= 5

BestOfPair == IF input[1][2] > input[2][2] THEN 0 ELSE 1

(* C18 as stated: of two identical boxes with scores s1 > s2, both at or   *)
(* above the threshold, nonMaxSuppression keeps only the box scoring s1.   *)
C18_IdenticalKeepsBest ==
    (output # <<>> /\ IdenticalPair) => output[1] = <<BestOfPair>>

(* C18 amended: of two identical boxes of positive area with scores        *)
(* s1 > s2, both at or above the threshold, nonMaxSuppression keeps only   *)
(* the box scoring s1.                                                     *)
C18_IdenticalAreaKeepsBest ==
    (output # <<>> /\ IdenticalPair /\ PositiveArea(input[1][1])) =>
        output[1] = <<BestOfPair>>

(* The better of two identical boxes is the second candidate and is the    *)
(* only one returned.                                                      *)
C18_Witness ==
    /\ IdenticalPair /\ PositiveArea(input[1][1])
    /\ input[2][2] > input[1][2]
    /\ output = << <<1>> >>

(* The open intervals (a, b) and (c, d) have a point in common. *)
OpenMeet(a, b, c, d) == a < b /\ c < d /\ a < d /\ c < b

(* The interiors of the two boxes have no point in common. *)
NonOverlapping(box1, box2) ==
    ~(/\ OpenMeet(box1[1], box1[3], box2[1], box2[3])
      /\ OpenMeet(box1[2], box1[4], box2[2], box2[4]))

(* The quotient is exactly 0, exactly 1. *)
IsZero(iou) == iou[2] # 0 /\ iou[1] = 0

IsOne(iou) == iou[2] # 0 /\ iou[1] = iou[2]

(* C19 as stated: calculateIoU returns exactly 0 for two non-overlapping   *)
(* boxes and exactly 1 for two identical boxes.                            *)
C19_IoUZeroOne ==
    output # <<>> =>
        /\ (NonOverlapping(input[1], input[2]) => IsZero(output[1]))
        /\ (input[1] = input[2] => IsOne(output[1]))

(* C19 amended: calculateIoU returns exactly 0 for two non-overlapping     *)
(* boxes and exactly 1 for two identical boxes of positive area.           *)
C19_IoUZeroOneArea ==
    output # <<>> =>
        /\ (NonOverlapping(input[1], input[2]) => IsZero(output[1]))
        /\ ((input[1] = input[2] /\ PositiveArea(input[1])) => IsOne(output[1]))

(* Two identical boxes of positive area, IoU 4 / 4. *)
C19_Witness ==
    /\ input[1] = input[2] /\ PositiveArea(input[1])
    /\ output = << <<4, 4>> >>

(* The candidates all score at or above the threshold and no two of them   *)
(* overlap.                                                                *)
AllDisjoint ==
    /\ \A k \in 1..Len(input) : input[k][2] >= 5
    /\ \A j, k \in 1..Len(input) :
          j # k => NonOverlapping(input[j][1], input[k][1])

(* C20: of N pairwise non-overlapping candidates, all at or above the      *)
(* threshold, nonMaxSuppression returns all N indices.                     *)
C20_DisjointAllKept ==
    (output # <<>> /\ AllDisjoint) =>
        /\ Len(output[1]) = Len(input)
        /\ { output[1][q] : q \in 1..Len(output[1]) } = 0..(Len(input) - 1)

(* Three disjoint candidates, two of them with positive area, all kept. *)
C20_Witness ==
    /\ Len(input) = 3 /\ AllDisjoint
    /\ PositiveArea(input[1][1]) /\ PositiveArea(input[2][1])
    /\ output # <<>> /\ Len(output[1]) = 3

(* One row scoring 0.9 for class 0 only, centre (320, 240), width and      *)
(* height 100, decoded against a 640 x 480 frame.                          *)
ScenarioInput ==
    /\ input.rows = << [box |-> <<320, 240, 100, 100>>, person |-> 9, scissors |-> 4] >>
    /\ input.other = 0
    /\ input.frame = <<640, 480>>

(* The function returned one person detection with this bbox, given in     *)
(* eighths of a pixel.                                                     *)
DecodedTo(bbox8) ==
    /\ output # <<>>
    /\ Len(output[1]) = 1
    /\ output[1][1].bbox = bbox8
    /\ output[1][1].classIndex = PERSON_CLASS_INDEX

(* C21 as stated: the scenario decodes to the box [270, 170, 85, 75]. *)
C21_ScenarioBox ==
    (output # <<>> /\ ScenarioInput) => DecodedTo(<<8 * 270, 8 * 170, 8 * 85, 8 * 75>>)

(* C21 amended: the scenario decodes to the box [270, 142.5, 100, 75]. *)
C21_ScenarioBoxScaled ==
    (output # <<>> /\ ScenarioInput) => DecodedTo(<<8 * 270, 1140, 8 * 100, 8 * 75>>)

(* The scenario has been decoded. *)
C21_Witness == ScenarioInput /\ DecodedTo(<<2160, 1140, 800, 600>>)

(* The error channel holds a failure reported by startWebcam. *)
IsStreamError(e) == e # NO_ERROR /\ e[1] = "Failed to start camera"

(* This step ends a startWebcam call without a stream: getUserMedia        *)
(* rejected or the video element reported an error.                        *)
StreamFailed ==
    mounted /\ camPc # "idle" /\ camPc' = "idle" /\ session' = session

(* C22: when the frame source fails, the failure is recorded on the error  *)
(* channel, isStreaming and isLoading are false, and while the error is    *)
(* set only the Retry button starts a new acquisition.                     *)
C22_StreamFailure ==
    /\ [][StreamFailed =>
            (IsStreamError(error') /\ ~isStreaming' /\ ~isLoading')]_vars
    /\ [][(mounted /\ error # NO_ERROR /\ camPc = "idle" /\ camPc' # "idle")
            => RetryClick]_vars

(***************************************************************************)
(* App on its own: onImageCapture is called with any image data, the       *)
(* Clear All button is clicked.  input records the images passed to        *)
(* onImageCapture since the last clear.                                    *)
(***************************************************************************)

MaxDeliveries == 5

(* Image data: a PNG, the data URL of an empty canvas, the empty string. *)
Images == {IMAGE, "data:,", ""}

(* The gallery block is rendered, App.tsx line 30. *)
GalleryShown(images) == Len(images) > 0

InitGallery == PureInit /\ input = <<>>

OnImageCapture ==
    /\ delivered < MaxDeliveries
    /\ \E img \in Images :
        /\ Update(handleImageCapture(St, img))
        /\ input' = Append(input, img)
    /\ UNCHANGED <<mounted, mediaSupported, leakedTensors, publishedCycle,
                   output, lastResult, lastOutcome,
                   modelRef, initPc, inFlight, cyclesStarted, session>>

ClearAllClick ==
    /\ GalleryShown(capturedImages)
    /\ Update([St EXCEPT !.capturedImages = <<>>])
    /\ input' = <<>>
    /\ UNCHANGED <<mounted, mediaSupported, leakedTensors, publishedCycle,
                   output, lastResult, lastOutcome,
                   modelRef, initPc, inFlight, cyclesStarted, session>>

NextGallery == OnImageCapture \/ ClearAllClick

SpecGallery == InitGallery /\ [][NextGallery]_vars

(* C23: the gallery list equals the sequence of images delivered through   *)
(* onImageCapture since the last clear, in delivery order and with empty   *)
(* image data included; a clear empties it; the gallery is shown exactly   *)
(* when the list is not empty.                                             *)
C23_GalleryIsLog ==
    /\ [](capturedImages = input)
    /\ [](GalleryShown(capturedImages) <=> capturedImages # <<>>)
    /\ [][Len(capturedImages') < Len(capturedImages) => capturedImages' = <<>>]_vars

(* Three deliveries after a clear, the second with empty data. *)
C23_Witness ==
    /\ delivered > 3
    /\ capturedImages = <<IMAGE, "", "data:,">>
    /\ GalleryShown(capturedImages)

(* C24: while mounted, isDetecting is true exactly while a detection cycle *)
(* is in flight.                                                           *)
C24_DetectingIffInFlight == mounted => (isDetecting <=> inFlight # {})

(* C25: modelLoaded is true only after backend init, model fetch and the   *)
(* warm-up inference have all completed, and a load attempt that has set   *)
(* modelLoaded never fails afterwards.                                     *)
C25_ReadyAfterWarmup ==
    /\ [](mounted /\ modelLoaded => initPc = "done")
    /\ [][(mounted /\ modelLoaded) => initPc' # "failed"]_vars

(* C26: every tensor a pipeline stage allocates is disposed on every exit  *)
(* path of the stage: no tensor is ever left undisposed.                   *)
C26_NoTensorLeak == leakedTensors = {}

(* C27: the published result is never replaced by the result of a cycle    *)
(* that started earlier than the cycle it came from.                       *)
C27_NewestWins == [][publishedCycle' >= publishedCycle]_vars

(* C28: while mounted, the latch hasAutoCapture is set only if a capture   *)
(* was delivered in this session: capturedImage is set and onImageCapture  *)
(* was invoked since the stream started.                                   *)
C28_LatchMeansDelivered ==
    (mounted /\ hasAutoCapture) => (capturedImage # NULL /\ sessCaptured > 0)

(* C29: at most one detection interval timer is active at any time, and    *)
(* none after the unmount.                                                 *)
C29_OneInterval ==
    /\ intervalTimers <= 1
    /\ (~mounted => intervalTimers = 0)

(* The polling effect has re-run while its timer was active (the tick set  *)
(* isDetecting, which re-rendered) and one timer is active.                *)
C29_Witness ==
    /\ mounted /\ intervalTimers = 1 /\ detectionInterval
    /\ isDetecting /\ cyclesStarted >= 2

(* The raw output with every score of the given class column set to 0. *)
WithoutPerson(raw) ==
    [raw EXCEPT !.rows = [k \in 1..Len(raw.rows) |-> [raw.rows[k] EXCEPT !.person = 0]]]

WithoutScissors(raw) ==
    [raw EXCEPT !.rows = [k \in 1..Len(raw.rows) |-> [raw.rows[k] EXCEPT !.scissors = 0]]]

(* The detections of one class, in order. *)
OfClass(detections, classIndex) ==
    SelectSeq(detections, LAMBDA d : d.classIndex = classIndex)

(* The detections of each class are adjacent. *)
Grouped(detections) ==
    \A i, j, k \in 1..Len(detections) :
        (i < j /\ j < k /\ detections[i].classIndex = detections[k].classIndex)
            => detections[j].classIndex = detections[i].classIndex

(* C30: suppression is independent per class: the detections of a class    *)
(* are those the same output gives when the other class is absent, whatever *)
(* the overlap, and the result is the per-class results one after another.  *)
C30_PerClass ==
    output # <<>> =>
        /\ OfClass(output[1], PERSON_CLASS_INDEX)
             = processDetections(WithoutScissors(input), input.frame[1], input.frame[2])
        /\ OfClass(output[1], SCISSORS_CLASS_INDEX)
             = processDetections(WithoutPerson(input), input.frame[1], input.frame[2])
        /\ Grouped(output[1])

(* Two rows with the same box, each at or above the threshold for both     *)
(* classes: one person and one scissors detection of that box survive.     *)
C30_Witness ==
    /\ output # <<>>
    /\ Len(input.rows) = 2
    /\ input.rows[1].box = input.rows[2].box
    /\ \A k \in 1..2 : input.rows[k].person >= 5 /\ input.rows[k].scissors >= 5
    /\ Len(output[1]) = 2
    /\ output[1][1].classIndex = PERSON_CLASS_INDEX
    /\ output[1][2].classIndex = SCISSORS_CLASS_INDEX
    /\ output[1][1].bbox = output[1][2].bbox

(* The indices nonMaxSuppression returned, as a set. *)
Returned == { output[1][q] : q \in 1..Len(output[1]) }

(* Candidates i and j (indices from 0) overlap above iouThreshold. *)
OverlapAbove(i, j) ==
    Exceeds(calculateIoU(input[i + 1][1], input[j + 1][1]), iouThreshold)

(* C31: the returned indices are distinct candidates scoring at or above   *)
(* the threshold, no two returned boxes have IoU above iouThreshold, and   *)
(* every at-or-above-threshold candidate that is not returned has IoU      *)
(* above iouThreshold with a returned candidate scoring at least as high.  *)
C31_Postcondition ==
    output # <<>> =>
        /\ Cardinality(Returned) = Len(output[1])
        /\ \A i \in Returned : i \in 0..(Len(input) - 1) /\ input[i + 1][2] >= 5
        /\ \A i, j \in Returned : i # j => ~OverlapAbove(i, j)
        /\ \A i \in 0..(Len(input) - 1) :
              (input[i + 1][2] >= 5 /\ i \notin Returned) =>
                  \E j \in Returned :
                      input[j + 1][2] >= input[i + 1][2] /\ OverlapAbove(j, i)

(* Three candidates at or above the threshold: one is suppressed by a      *)
(* returned one, two are returned, and the two returned overlap below the  *)
(* threshold.                                                              *)
C31_Witness ==
    /\ output # <<>>
    /\ Len(input) = 3
    /\ \A k \in 1..3 : input[k][2] >= 5
    /\ Len(output[1]) = 2
    /\ calculateIoU(input[output[1][1] + 1][1], input[output[1][2] + 1][1])[1] > 0

(* A box whose right edge lies left of its left edge, or bottom above top. *)
Inverted(box) == box[3] < box[1] \/ box[4] < box[2]

(* A box of zero width or zero height. *)
ZeroArea(box) == box[3] = box[1] \/ box[4] = box[2]

(* C32: calculateIoU never divides by a zero or negative union: for every  *)
(* pair of boxes it either returned 0 before dividing or the union area    *)
(* it divided by is strictly positive.                                     *)
C32_UnionPositive ==
    output # <<>> => (output[1] = <<0, 1>> \/ output[1][2] > 0)

(* An inverted box against a zero-area box lying on its edge: the early    *)
(* return is what keeps a union of at most zero from being divided by.     *)
C32_Witness ==
    /\ output # <<>>
    /\ Inverted(input[1])
    /\ ZeroArea(input[2])
    /\ input[2][1] = input[1][1]
    /\ output[1] = <<0, 1>>

(* The raw output with every class other than 0 and 76 scoring nothing. *)
WithoutOthers(raw) == [raw EXCEPT !.other = 0]

(* C33: only the class indices 0 and 76 are examined by the decoder: the   *)
(* scores of the other classes change nothing, a row at or above the       *)
(* threshold only for another class produces no detection, and every       *)
(* detection has classIndex 0 with the label person or classIndex 76 with  *)
(* the label scissors.                                                     *)
C33_OnlyMonitoredClasses ==
    output # <<>> =>
        /\ output[1] = processDetections(WithoutOthers(input), input.frame[1],
                                         input.frame[2])
        /\ Len(output[1]) <=
             Cardinality({ k \in 1..Len(input.rows) : input.rows[k].person >= 5 })
               + Cardinality({ k \in 1..Len(input.rows) : input.rows[k].scissors >= 5 })
        /\ \A q \in 1..Len(output[1]) :
              \/ /\ output[1][q].classIndex = PERSON_CLASS_INDEX
                 /\ output[1][q].className = "person"
              \/ /\ output[1][q].classIndex = SCISSORS_CLASS_INDEX
                 /\ output[1][q].className = "scissors"

(* Two rows with the other classes at 0.9: the first is below the          *)
(* threshold for both monitored classes, the second is a person; the only  *)
(* detection is that person.                                               *)
C33_Witness ==
    /\ output # <<>>
    /\ input.other = 9
    /\ Len(input.rows) = 2
    /\ input.rows[1].person < 5 /\ input.rows[1].scissors < 5
    /\ input.rows[2].person >= 5 /\ input.rows[2].scissors < 5
    /\ Len(output[1]) = 1
    /\ output[1][1].classIndex = PERSON_CLASS_INDEX

(* The rows at or above the threshold for a monitored class. *)
HotRows(raw) ==
    { k \in 1..Len(raw.rows) : raw.rows[k].person >= 5 \/ raw.rows[k].scissors >= 5 }

(* Row k is at or above the threshold for both monitored classes and no    *)
(* other row is for either.                                                *)
OnlyRowBoth(raw, k) ==
    /\ HotRows(raw) = {k}
    /\ raw.rows[k].person >= 5
    /\ raw.rows[k].scissors >= 5

(* C34: one row at or above the threshold for both monitored classes       *)
(* gives one candidate per class with the same box, and both are in the    *)
(* final detection set: a person and a scissors detection with the same    *)
(* bbox, each with the row's score for its class.                          *)
C34_BothClassesOfOneRow ==
    \A k \in 1..Len(input.rows) :
        (output # <<>> /\ OnlyRowBoth(input, k)) =>
            /\ Len(output[1]) = 2
            /\ output[1][1].classIndex = PERSON_CLASS_INDEX
            /\ output[1][1].confidence = input.rows[k].person
            /\ output[1][2].classIndex = SCISSORS_CLASS_INDEX
            /\ output[1][2].confidence = input.rows[k].scissors
            /\ output[1][1].bbox = output[1][2].bbox

(* The second of two rows scores 0.9 as a person and 0.5 as scissors, the  *)
(* first is below the threshold for both; two detections were returned.    *)
C34_Witness ==
    /\ output # <<>>
    /\ Len(input.rows) = 2
    /\ OnlyRowBoth(input, 2)
    /\ input.rows[2].person = 9
    /\ input.rows[2].scissors = 5
    /\ Len(output[1]) = 2

(* Candidates i < j (indices from 0) score the same, at or above the       *)
(* threshold, and overlap above iouThreshold; no third candidate at or     *)
(* above the threshold overlaps candidate i above iouThreshold.            *)
TiedPair(i, j) ==
    /\ i < j
    /\ input[i + 1][2] = input[j + 1][2]
    /\ input[i + 1][2] >= 5
    /\ OverlapAbove(i, j)
    /\ \A m \in 0..(Len(input) - 1) :
          (m # i /\ m # j /\ input[m + 1][2] >= 5) => ~OverlapAbove(m, i)

(* C35: nonMaxSuppression processes the candidates by descending score     *)
(* with ties in original index order: the returned indices are in that     *)
(* order, and of two equally scored boxes overlapping above iouThreshold   *)
(* the one with the lower original index is kept and the other is not.     *)
C35_TiesByIndex ==
    output # <<>> =>
        /\ \A q, r \in 1..Len(output[1]) :
              q < r =>
                  \/ input[output[1][q] + 1][2] > input[output[1][r] + 1][2]
                  \/ /\ input[output[1][q] + 1][2] = input[output[1][r] + 1][2]
                     /\ output[1][q] < output[1][r]
        /\ \A i, j \in 0..(Len(input) - 1) :
              TiedPair(i, j) => (i \in Returned /\ j \notin Returned)

(* Three candidates: the first and the last tie at 0.9 and overlap above   *)
(* the threshold, the middle one ties too and overlaps neither above it;   *)
(* the first and the middle one are returned in index order.               *)
C35_Witness ==
    /\ output # <<>>
    /\ Len(input) = 3
    /\ \A k \in 1..3 : input[k][2] = 9
    /\ TiedPair(0, 2)
    /\ input[1][1] # input[3][1]
    /\ output[1] = <<0, 1>>

(* [(cx - w/2) * frameWidth / 640, (cy - h/2) * frameHeight / 640,         *)
(*  w * frameWidth / 640, h * frameHeight / 640] in eighths of a pixel,    *)
(* for the center-format box <<cx, cy, w, h>> of a row.                    *)
PublishedBox(box, frame) ==
    << ((2 * box[1] - box[3]) * 4 * frame[1]) \div 640,
       ((2 * box[2] - box[4]) * 4 * frame[2]) \div 640,
       (8 * box[3] * frame[1]) \div 640,
       (8 * box[4] * frame[2]) \div 640 >>

(* The score of a row for a class. *)
RowScore(row, classIndex) ==
    IF classIndex = PERSON_CLASS_INDEX THEN row.person ELSE row.scissors

(* C36: for every kept candidate with (cx, cy, w, h) and every frame size  *)
(* the published bbox is [(cx - w/2) * frameWidth / 640,                   *)
(* (cy - h/2) * frameHeight / 640, w * frameWidth / 640,                   *)
(* h * frameHeight / 640]: every detection is that of a row at or above    *)
(* the threshold for its class, with that bbox.                            *)
C36_PublishedBox ==
    output # <<>> =>
        \A q \in 1..Len(output[1]) :
            \E k \in 1..Len(input.rows) :
                /\ RowScore(input.rows[k], output[1][q].classIndex)
                     = output[1][q].confidence
                /\ output[1][q].confidence >= 5
                /\ output[1][q].bbox = PublishedBox(input.rows[k].box, input.frame)

(* A 640x480 frame and two rows centered at (330,240) and (500,400), 100   *)
(* wide and high: the boxes [280, 142.5, 100, 75] and                      *)
(* [450, 262.5, 100, 75] are published.                                    *)
C36_Witness ==
    /\ output # <<>>
    /\ input.frame = <<640, 480>>
    /\ Len(input.rows) = 2
    /\ input.rows[1].box = <<330, 240, 100, 100>>
    /\ input.rows[2].box = <<500, 400, 100, 100>>
    /\ Len(output[1]) = 2
    /\ output[1][1].bbox = <<2240, 1140, 800, 600>>
    /\ output[1][2].bbox = <<3600, 2100, 800, 600>>

(* The fixed messages of the five known camera error names. *)
FixedMessages == { ERROR_MESSAGES[n] : n \in DOMAIN ERROR_MESSAGES }

(* This step handles a rejection of getUserMedia in the mounted component. *)
AcquisitionRejected ==
    mounted /\ mounted' /\ camPc = "getUserMedia" /\ camPc' = "idle"

(* C37: when camera acquisition is rejected, the error text shown is the   *)
(* fixed message of the rejection's name if that is one of the five known  *)
(* names, and contains 'An unexpected error occurred' otherwise.           *)
C37_UnknownNameGeneric ==
    [][AcquisitionRejected =>
          /\ IsStreamError(error')
          /\ error'[2] \in FixedMessages \cup {"An unexpected error occurred"}]_vars

====
